---- MODULE Spec2Model ----
(***************************************************************************)
(* Model of streamlit_app.py: the basketball record keeping application.   *)
(*                                                                         *)
(* The persistent state is the two CSV files and the image directory:      *)
(*   data     data.csv, one row per game record                            *)
(*   players  players.csv, one row per registered player                   *)
(*   images   the names N for which images/N.jpg exists                    *)
(* Every handler reads a file with pandas.read_csv, changes the frame and  *)
(* writes the whole file back with DataFrame.to_csv.  Text cells are kept  *)
(* as the text in the file; read_csv's treatment of them (NA tokens, the   *)
(* dtype inferred for the column) is modelled by ReadCell / Dtype.         *)
(* Numeric cells (counts, accuracy, age, height, weight) are kept as the   *)
(* number they denote, NaN standing for the missing value.                 *)
(*                                                                         *)
(* Strings of the source that are not ASCII are written in ASCII:          *)
(*   WinYes = the option "(check mark) shi", WinNo = "(cross) fou",        *)
(*   "male" / "female" / "other" = the three gender options.               *)
(***************************************************************************)
EXTENDS Integers, Sequences, FiniteSets, TLC

VARIABLES data, players, images, nextId, saves, locAlign, calc, medals, last

vars == <<data, players, images, nextId, saves, locAlign, calc, medals, last>>

(***************************************************************************)
(* Bounds of the model.                                                    *)
(***************************************************************************)
\* records that add_record_section may create in one run (uuid4 values used)
MaxRecords == 2
\* largest count typed into a shots / made number input
MaxShots == 1
\* rows in players.csv
MaxRoster == 2
\* elementary edits (remove a row, add a row, change a cell) in one editor session
MaxEdits == 1
\* clicks on the save button of the bulk editor in one run
MaxSaves == 1
\* largest argument of calc_accuracy in the specification of the pure function
MaxCalc == 12
MaxMedalRecords == 2

(***************************************************************************)
(* Values.                                                                 *)
(***************************************************************************)
\* the missing value of a numeric cell (pandas NaN; an empty cell in the file)
NaN == -1
\* the missing value of a text cell, as to_csv writes it: the empty cell
NoText == ""
\* the missing value of a date cell
NoDate == <<>>

\* date.today(): fixed for a run
Today == <<2025, 6, 15>>

WinYes == "yes"
WinNo == "no"
WinOptions == {WinYes, WinNo}

(***************************************************************************)
(* pandas.read_csv on a text column.                                       *)
(***************************************************************************)
\* the cell texts read_csv takes for the missing value (its default na_values;
\* the ones the model's inputs can produce)
NAValues == {"", "NA"}

\* the cell texts read_csv parses as numbers, and those among them it parses as integers
NumTexts == {"0", "0.0"}
IntTexts == {"0"}

IsNA(t) == t \in NAValues

\* the texts of field f in the rows of a file
Column(rows, f) == {rows[i][f] : i \in DOMAIN rows}

\* the dtype read_csv infers for a column holding these cell texts
Dtype(texts) ==
    LET vals == texts \ NAValues
    IN  IF vals = {} THEN (IF texts = {} THEN "object" ELSE "float64")
        ELSE IF vals \subseteq NumTexts
             THEN (IF vals \subseteq IntTexts /\ texts \cap NAValues = {}
                   THEN "int64" ELSE "float64")
             ELSE "object"

\* the value read_csv gives a cell of a column of that dtype, written as str()
\* writes it (and as to_csv writes it back): NoText is NaN
ReadCell(t, dtype) ==
    IF IsNA(t) THEN NoText
    ELSE IF dtype = "float64" THEN "0.0"
    ELSE t

\* bool(v) of a value read from a column of that dtype: NaN is true, the number
\* zero is false, a non-empty str is true
Truthy(v, dtype) == ~ (dtype \in {"int64", "float64"} /\ v \in NumTexts)

\* str.strip() on the names the model's inputs can produce
Strip(s) ==
    IF s = " A" THEN "A"
    ELSE IF s = " " THEN ""
    ELSE s

(***************************************************************************)
(* calc_accuracy                                                           *)
(***************************************************************************)
\* n / d rounded to the nearest integer, ties to even (Python's round)
RoundDiv(n, d) ==
    LET nn == IF d < 0 THEN 0 - n ELSE n
        dd == IF d < 0 THEN 0 - d ELSE d
        q  == nn \div dd
        r  == nn % dd
    IN  IF 2 * r > dd THEN q + 1
        ELSE IF 2 * r < dd THEN q
        ELSE IF q % 2 = 0 THEN q ELSE q + 1

\* the percentage cut to two decimals instead of rounded
calc_accuracy_Truncated(shots, made) ==
    IF shots = 0 THEN 0
    ELSE IF shots = NaN \/ made = NaN THEN NaN
    ELSE (made * 10000) \div shots

\* round((made / shots) * 100, 2) if shots else 0.0, in hundredths of a percent.
\* NaN is true and every arithmetic on NaN is NaN.
calc_accuracy(shots, made) ==
    IF shots = 0 THEN 0
    ELSE IF shots = NaN \/ made = NaN THEN NaN
    ELSE RoundDiv(made * 10000, shots)

(***************************************************************************)
(* The two files.  A row of data.csv has the columns                       *)
(*   record_id, date, player, shots, made, win, acc                        *)
(* (record_id, "ri qi", "qiu yuan", "tou lan shu", "ming zhong shu",       *)
(* "shi fou ying qiu", "ming zhong lu" in the source); a row of            *)
(* players.csv has name, birthday, age, height, gender, weight.            *)
(***************************************************************************)
\* a sequence with f applied to every element
MapSeq(s, f(_)) == [i \in DOMAIN s |-> f(s[i])]

\* the elements of a sequence, as a set
Range(s) == {s[i] : i \in DOMAIN s}

\* load_data(): data.csv as read_csv gives it
load_data(rows) ==
    LET dp == Dtype(Column(rows, "player"))
        dw == Dtype(Column(rows, "win"))
    IN  MapSeq(rows, LAMBDA r : [r EXCEPT !.player = ReadCell(@, dp),
                                          !.win = ReadCell(@, dw)])

\* load_players_df(): players.csv as read_csv gives it
load_players_df(rows) ==
    LET dn == Dtype(Column(rows, "name"))
        dg == Dtype(Column(rows, "gender"))
    IN  MapSeq(rows, LAMBDA r : [r EXCEPT !.name = ReadCell(@, dn),
                                          !.gender = ReadCell(@, dg)])

\* get_player_names(): dfp[name].dropna().astype(str).tolist()
get_player_names(rows) ==
    MapSeq(SelectSeq(load_players_df(rows), LAMBDA r : r.name # NoText),
           LAMBDA r : r.name)

\* the age computed from a birthday: today.year - birth.year - ((today.month,
\* today.day) < (birth.month, birth.day))
AgeOf(birthday) ==
    Today[1] - birthday[1]
      - (IF Today[2] < birthday[2]
            \/ (Today[2] = birthday[2] /\ Today[3] < birthday[3])
         THEN 1 ELSE 0)

\* str(int(x)) if x else "" of a number input: zero is stored as the empty cell
NumOrBlank(x) == IF x = 0 THEN NaN ELSE x

(***************************************************************************)
(* The medal calculator.  The source holds no medal code: these definitions *)
(* are written from section 4.2 of the specification, over calc_accuracy   *)
(* of the source.  A record here is the date and the two counts of a row.  *)
(***************************************************************************)
\* the medal counts of a player without medals
NoMedals == [gold |-> 0, silver |-> 0, bronze |-> 0]

\* the records of a list that fall in a calendar month <<year, month>>
InMonth(records, month) ==
    SelectSeq(records, LAMBDA r : r.date # NoDate /\ <<r.date[1], r.date[2]>> = month)

\* the calendar months of the records; a record without a date is in no month
MonthsOf(records) ==
    {<<r.date[1], r.date[2]>> : r \in {q \in Range(records) : q.date # NoDate}}

\* the sum of a count over records
RECURSIVE SumOf(_, _)
SumOf(records, f) ==
    IF records = <<>> THEN 0 ELSE Head(records)[f] + SumOf(Tail(records), f)

\* the medal of an accuracy, in hundredths of a percent
classify(acc) ==
    IF acc >= 6000 THEN "gold"
    ELSE IF acc >= 5000 THEN "silver"
    ELSE IF acc >= 3500 THEN "bronze"
    ELSE "none"

\* the medal of a month: one accuracy from the summed counts of the month
MonthMedal(records, month) ==
    classify(calc_accuracy(SumOf(InMonth(records, month), "shots"),
                           SumOf(InMonth(records, month), "made")))

\* the medal of a month from its best record instead of its summed counts
MedalsWon_PerRecord(records, kind) ==
    Cardinality({m \in MonthsOf(records) :
                    \E r \in Range(InMonth(records, m)) :
                        classify(calc_accuracy(r.shots, r.made)) = kind})

\* the number of months of the records that earn a medal of a kind
MedalsWon(records, kind) ==
    Cardinality({m \in MonthsOf(records) : MonthMedal(records, m) = kind})

monthlyMedals(records) ==
    [gold |-> MedalsWon(records, "gold"),
     silver |-> MedalsWon(records, "silver"),
     bronze |-> MedalsWon(records, "bronze")]

(***************************************************************************)
(* Inputs of the forms.                                                    *)
(***************************************************************************)
\* dates picked in the add-record form
Dates == {<<2025, 6, 1>>}
\* counts typed into the number inputs of the add-record form (min_value = 0)
Counts == 0 .. MaxShots

\* what is typed into a cell of the bulk editor, per column; NaN and NoText are
\* the cleared cell
IdCells(df) == Column(df, "record_id") \ {NaN}
PlayerCells == {"A", "0", NoText}
CountCells == Counts \cup {NaN}
WinCells == {WinYes, "maybe", NoText}

\* the record of what the last handler was given and what the files held before it
Did(op, out, arg) ==
    [op |-> op, out |-> out, arg |-> arg,
     data0 |-> data, players0 |-> players, images0 |-> images]

Init ==
    /\ data = <<>>
    /\ players = <<>>
    /\ images = {}
    /\ nextId = 1
    /\ saves = 0
    /\ locAlign \in {"columns", "index"}
    /\ calc = [shots |-> 0, made |-> 0, done |-> FALSE, result |-> 0]
    /\ medals = [records |-> <<>>, done |-> FALSE, result |-> NoMedals]
    /\ last = [op |-> "start", out |-> "", arg |-> <<>>,
               data0 |-> <<>>, players0 |-> <<>>, images0 |-> {}]

(***************************************************************************)
(* player_management_section: the registration form, and add_player_details *)
(***************************************************************************)
add_player_details(name, birthday, height, gender, weight) ==
    LET new_record == [name |-> Strip(name), birthday |-> birthday,
                       age |-> AgeOf(birthday), height |-> height,
                       gender |-> gender, weight |-> weight]
    IN  IF Strip(name) = "" \/ Strip(name) \in Range(get_player_names(players))
        THEN players
        ELSE Append(load_players_df(players), new_record)

RegisterPlayer(raw, birthday, height, gender, weight, photo) ==
    LET name == Strip(raw)
        arg  == [raw |-> raw, name |-> name, birthday |-> birthday,
                 photo |-> photo]
    IN  IF name = ""
        THEN /\ last' = Did("RegisterPlayer", "no_name", arg)
             /\ UNCHANGED <<data, players, images, nextId, saves, locAlign, calc, medals>>
        ELSE IF name \in Range(get_player_names(players))
        THEN /\ last' = Did("RegisterPlayer", "exists", arg)
             /\ UNCHANGED <<data, players, images, nextId, saves, locAlign, calc, medals>>
        ELSE /\ Len(players) < MaxRoster
             /\ players' = add_player_details(name, birthday, NumOrBlank(height),
                                              gender, NumOrBlank(weight))
             /\ images' = IF photo THEN images \cup {name} ELSE images
             /\ last' = Did("RegisterPlayer", "added", arg)
             /\ UNCHANGED <<data, nextId, saves, locAlign, calc, medals>>

(***************************************************************************)
(* add_record_section                                                      *)
(***************************************************************************)
\* the check that rejects the form: if made > shots
MadeExceedsShots_AtLeast(shots, made) == made >= shots

MadeExceedsShots(shots, made) == made > shots

AddRecord(game_date, player, shots, made, win) ==
    /\ get_player_names(players) # <<>>
    /\ player \in Range(get_player_names(players))
    /\ LET arg == [player |-> player, shots |-> shots, made |-> made]
       IN  IF MadeExceedsShots(shots, made)
           THEN /\ last' = Did("AddRecord", "rejected", arg)
                /\ UNCHANGED <<data, players, images, nextId, saves, locAlign, calc, medals>>
           ELSE /\ nextId <= MaxRecords
                /\ LET new_record == [record_id |-> nextId, date |-> game_date,
                                      player |-> player, shots |-> shots,
                                      made |-> made, win |-> win,
                                      acc |-> calc_accuracy(shots, made)]
                   IN  data' = Append(load_data(data), new_record)
                /\ nextId' = nextId + 1
                /\ last' = Did("AddRecord", "added", arg)
                /\ UNCHANGED <<players, images, saves, locAlign, calc, medals>>

(***************************************************************************)
(* edit_records_section: the bulk editor                                   *)
(***************************************************************************)
\* sorted(df[player].unique()) raises TypeError when the column holds both str
\* and NaN: the page shows the exception and nothing below line 355 runs
PlayersSortable(rows) ==
    ~ (Dtype(Column(rows, "player")) = "object"
       /\ NoText \in Column(load_data(rows), "player"))

\* df[df[player] == selected_player] if selected_player else df
df_filtered(rows, selected_player) ==
    IF Truthy(selected_player, Dtype(Column(rows, "player")))
    THEN SelectSeq(load_data(rows),
                   LAMBDA r : r.player = selected_player /\ selected_player # NoText)
    ELSE load_data(rows)

\* df_filtered.drop(columns=[acc])
editable_df(rows, selected_player) ==
    MapSeq(df_filtered(rows, selected_player),
           LAMBDA r : [record_id |-> r.record_id, date |-> r.date,
                       player |-> r.player, shots |-> r.shots,
                       made |-> r.made, win |-> r.win])

\* the row the editor appends (num_rows="dynamic"): every cell empty
NewRow ==
    [record_id |-> NaN, date |-> NoDate, player |-> NoText,
     shots |-> NaN, made |-> NaN, win |-> NoText]

\* a sequence without its i-th element
RemoveAt(s, i) == [j \in 1 .. (Len(s) - 1) |-> IF j < i THEN s[j] ELSE s[j + 1]]

\* what one edit in st.data_editor makes of the table w: a row removed, a row
\* added, or one cell of one row retyped (no column is disabled)
OneEdit(w, ids) ==
    {RemoveAt(w, i) : i \in DOMAIN w}
      \cup {Append(w, NewRow)}
      \cup {[w EXCEPT ![i].record_id = v] : i \in DOMAIN w, v \in ids}
      \cup {[w EXCEPT ![i].player = v] : i \in DOMAIN w, v \in PlayerCells}
      \cup {[w EXCEPT ![i].shots = v] : i \in DOMAIN w, v \in CountCells}
      \cup {[w EXCEPT ![i].made = v] : i \in DOMAIN w, v \in CountCells}
      \cup {[w EXCEPT ![i].win = v] : i \in DOMAIN w, v \in WinCells}

\* the tables the user can leave in the editor with at most k edits
RECURSIVE EditedTables(_, _, _)
EditedTables(w, ids, k) ==
    IF k = 0 THEN {w}
    ELSE LET prev == EditedTables(w, ids, k - 1)
         IN  prev \cup UNION {OneEdit(x, ids) : x \in prev}

\* the accuracy column left as the editor's rows give it: none, written as zero
Recalculated_NotComputed(edited_df) ==
    MapSeq(edited_df,
           LAMBDA r : [record_id |-> r.record_id, date |-> r.date,
                       player |-> r.player, shots |-> r.shots,
                       made |-> r.made, win |-> r.win, acc |-> 0])

\* edited_df[acc] = edited_df.apply(lambda r: calc_accuracy(r[shots], r[made]), axis=1)
Recalculated(edited_df) ==
    MapSeq(edited_df,
           LAMBDA r : [record_id |-> r.record_id, date |-> r.date,
                       player |-> r.player, shots |-> r.shots,
                       made |-> r.made, win |-> r.win,
                       acc |-> calc_accuracy(r.shots, r.made)])

\* a row of the frame with every cell NaN
NaNRow ==
    [record_id |-> NaN, date |-> NoDate, player |-> NoText,
     shots |-> NaN, made |-> NaN, win |-> NoText, acc |-> NaN]

\* full_df.loc[full_df[record_id] == row[record_id], full_df.columns] = row
\* NaN equals nothing, so a row without an id selects no record.  The Series row
\* is indexed by the column names; how .loc aligns it with the selection
\* depends on the pandas in use: by column label, which writes the row's values,
\* or by row label, which finds none of them and writes NaN in every cell.
LocAssign(full_df, row, align) ==
    MapSeq(full_df,
           LAMBDA r : IF r.record_id = row.record_id /\ row.record_id # NaN
                      THEN (IF align = "columns" THEN row ELSE NaNRow)
                      ELSE r)

\* for _, row in edited_df.iterrows(): full_df.loc[...] = row
RECURSIVE AssignRows(_, _, _, _)
AssignRows(full_df, edited_df, i, align) ==
    IF i > Len(edited_df) THEN full_df
    ELSE AssignRows(LocAssign(full_df, edited_df[i], align), edited_df, i + 1, align)

\* the options of the player selectbox: sorted(df[player].unique())
SelectablePlayers(rows) == Column(load_data(rows), "player")

\* the tables st.data_editor can return for the selected player
EditorTables(rows, selected_player) ==
    EditedTables(editable_df(rows, selected_player), IdCells(load_data(rows)), MaxEdits)

SaveEdits(selected_player, edited_df) ==
    /\ saves < MaxSaves
    /\ data # <<>>
    /\ PlayersSortable(data)
    /\ selected_player \in SelectablePlayers(data)
    /\ data' = AssignRows(load_data(data), Recalculated(edited_df), 1, locAlign)
    /\ saves' = saves + 1
    /\ last' = Did("SaveEdits", "saved",
                   [selected_player |-> selected_player,
                    filtered |-> Truthy(selected_player,
                                        Dtype(Column(data, "player"))),
                    working |-> editable_df(data, selected_player),
                    edited |-> edited_df])
    /\ UNCHANGED <<players, images, nextId, locAlign, calc, medals>>

(***************************************************************************)
(* edit_records_section: the player forms below the bulk editor            *)
(***************************************************************************)
\* players_df[players_df[name] == edit_name]: the rows a name typed as str
\* selects.  In a column read as numbers no value equals a str.
RowsNamed(rows, names) ==
    {i \in DOMAIN rows :
        /\ Dtype(Column(rows, "name")) = "object"
        /\ load_players_df(rows)[i].name \in names}

\* the player forms are reached: the records are not empty (line 350), the
\* player selectbox of the bulk editor was built (line 355), and the first form
\* found the row of the selected name (.iloc[0] at line 389 raises IndexError
\* on an empty selection)
PlayerFormsRender ==
    /\ data # <<>>
    /\ PlayersSortable(data)
    /\ players # <<>>
    /\ \A n \in Range(get_player_names(players)) : RowsNamed(players, {n}) # {}

UpdatePlayer(edit_name, new_birthday, new_height, new_gender, new_weight, new_photo) ==
    /\ PlayerFormsRender
    /\ edit_name \in Range(get_player_names(players))
    /\ players' = [i \in DOMAIN players |->
                     IF i \in RowsNamed(players, {edit_name})
                     THEN [load_players_df(players)[i] EXCEPT
                             !.birthday = new_birthday,
                             !.age = NumOrBlank(AgeOf(new_birthday)),
                             !.height = NumOrBlank(new_height),
                             !.gender = new_gender,
                             !.weight = NumOrBlank(new_weight)]
                     ELSE load_players_df(players)[i]]
    /\ images' = IF new_photo THEN images \cup {edit_name} ELSE images
    /\ last' = Did("UpdatePlayer", "updated",
                   [name |-> edit_name, birthday |-> new_birthday,
                    photo |-> new_photo])
    /\ UNCHANGED <<data, nextId, saves, locAlign, calc, medals>>

\* the removal that also drops the rows read as NaN
remaining_df_DropsUnnamed(rows, del_names) ==
    SelectSeq(load_players_df(rows),
              LAMBDA r : ~ (r.name \in del_names \cup {NoText}))

\* remaining_df = players_df[~players_df[name].isin(del_names)]
remaining_df(rows, del_names) ==
    SelectSeq(load_players_df(rows),
              LAMBDA r : ~ (Dtype(Column(rows, "name")) = "object"
                            /\ r.name \in del_names))

DeletePlayers(del_names) ==
    /\ PlayerFormsRender
    /\ del_names \subseteq Range(get_player_names(players))
    /\ IF del_names = {}
       THEN /\ last' = Did("DeletePlayers", "none_selected", [names |-> del_names])
            /\ UNCHANGED <<data, players, images, nextId, saves, locAlign, calc, medals>>
       ELSE /\ players' = remaining_df(players, del_names)
            /\ images' = images \ del_names
            /\ last' = Did("DeletePlayers", "deleted", [names |-> del_names])
            /\ UNCHANGED <<data, nextId, saves, locAlign, calc, medals>>

(***************************************************************************)
(* The record store: registration of players, add-record, bulk edit.       *)
(***************************************************************************)
\* names typed into the registration form in the specification of the record store
RecordNameInputs == {"A", "0"}

Next ==
    \/ \E raw \in RecordNameInputs :
          RegisterPlayer(raw, <<2000, 6, 16>>, 0, "male", 0, FALSE)
    \/ \E d \in Dates, p \in RecordNameInputs, s \in Counts, m \in Counts,
          w \in WinOptions :
          AddRecord(d, p, s, m, w)
    \/ \E p \in SelectablePlayers(data) : \E e \in EditorTables(data, p) :
          SaveEdits(p, e)

Spec == Init /\ [][Next]_vars

(***************************************************************************)
(* The roster: registration, update and removal of players, with records   *)
(* present in the store.                                                   *)
(***************************************************************************)
\* what is typed into the name field of the registration form
NameInputs == {" A", "", "NA", "0"}
\* the names those inputs can put in the roster
Names == {Strip(raw) : raw \in NameInputs}
\* birthdays picked in a date input (between 1925-01-01 and today)
Birthdays == {<<2000, 6, 16>>, <<2024, 12, 1>>}

\* no handler of the roster reads locAlign, and NextRoster never saves the bulk
\* editor: one value of it is enough
InitRoster == Init /\ locAlign = "columns"

NextRoster ==
    \/ \E raw \in NameInputs, photo \in BOOLEAN :
          RegisterPlayer(raw, <<2000, 6, 16>>, 0, "male", 0, photo)
    \/ \E d \in Dates, p \in Names :
          AddRecord(d, p, 1, 1, WinYes)
    \/ \E n \in Names, b \in Birthdays :
          UpdatePlayer(n, b, 180, "female", 70, FALSE)
    \/ \E names \in SUBSET Names :
          DeletePlayers(names)

SpecRoster == InitRoster /\ [][NextRoster]_vars

(***************************************************************************)
(* calc_accuracy alone: the arguments are drawn in the initial state and   *)
(* the function is applied once.                                           *)
(***************************************************************************)
InitCalc ==
    /\ data = <<>>
    /\ players = <<>>
    /\ images = {}
    /\ nextId = 1
    /\ saves = 0
    /\ locAlign = "columns"
    /\ calc \in [shots : 0 .. MaxCalc, made : 0 .. MaxCalc, done : {FALSE}, result : {0}]
    /\ medals = [records |-> <<>>, done |-> FALSE, result |-> NoMedals]
    /\ last = [op |-> "start", out |-> "", arg |-> <<>>,
               data0 |-> <<>>, players0 |-> <<>>, images0 |-> {}]

Compute ==
    /\ ~ calc.done
    /\ calc' = [calc EXCEPT !.done = TRUE,
                            !.result = calc_accuracy(calc.shots, calc.made)]
    /\ UNCHANGED <<data, players, images, nextId, saves, locAlign, medals, last>>

NextCalc == Compute

SpecCalc == InitCalc /\ [][NextCalc]_vars

(***************************************************************************)
(* The medal calculator alone: the records of one player are drawn in the  *)
(* initial state and the medals are counted once.                          *)
(***************************************************************************)
\* the dates of the records: two months, and the record without a date
MedalDates == {<<2025, 5, 10>>, <<2025, 6, 1>>, NoDate}
\* the attempts and the makes of a record
MedalShots == {0, 10}
MedalMade == {0, 5, 6, 7}

RECURSIVE RecordLists(_)
RecordLists(n) ==
    IF n = 0 THEN {<<>>}
    ELSE RecordLists(n - 1) \cup
         {Append(l, r) : l \in {k \in RecordLists(n - 1) : Len(k) = n - 1},
                         r \in [date : MedalDates, shots : MedalShots,
                                made : MedalMade]}

InitMedals ==
    /\ data = <<>>
    /\ players = <<>>
    /\ images = {}
    /\ nextId = 1
    /\ saves = 0
    /\ locAlign = "columns"
    /\ calc = [shots |-> 0, made |-> 0, done |-> FALSE, result |-> 0]
    /\ medals \in [records : RecordLists(MaxMedalRecords), done : {FALSE},
                   result : {NoMedals}]
    /\ last = [op |-> "start", out |-> "", arg |-> <<>>,
               data0 |-> <<>>, players0 |-> <<>>, images0 |-> {}]

CountMedals ==
    /\ ~ medals.done
    /\ medals' = [medals EXCEPT !.done = TRUE,
                                !.result = monthlyMedals(medals.records)]
    /\ UNCHANGED <<data, players, images, nextId, saves, locAlign, calc, last>>

NextMedals == CountMedals

SpecMedals == InitMedals /\ [][NextMedals]_vars

(***************************************************************************)
(* Properties.                                                             *)
(***************************************************************************)
\* two cell texts that read_csv reads as the same value: the same text, two NA
\* tokens, or two spellings of the same number
SameText(a, b) ==
    \/ a = b
    \/ IsNA(a) /\ IsNA(b)
    \/ a \in NumTexts /\ b \in NumTexts

\* two rows of data.csv holding the same values
SameRecord(r, q) ==
    /\ r.record_id = q.record_id
    /\ r.date = q.date
    /\ SameText(r.player, q.player)
    /\ r.shots = q.shots
    /\ r.made = q.made
    /\ SameText(r.win, q.win)
    /\ r.acc = q.acc

\* two rows of players.csv holding the same values
SamePlayer(r, q) ==
    /\ SameText(r.name, q.name)
    /\ r.birthday = q.birthday
    /\ r.age = q.age
    /\ r.height = q.height
    /\ SameText(r.gender, q.gender)
    /\ r.weight = q.weight

\* the record ids of a table, the missing id left out
IdsOf(rows) == Column(rows, "record_id") \ {NaN}

\* the last handler was a save of the bulk editor, of a table filtered by player
SavedFiltered == last.op = "SaveEdits" /\ last.arg.filtered
\* the last handler was a save of the bulk editor, of the whole table
SavedWhole == last.op = "SaveEdits" /\ ~ last.arg.filtered

\* C1: after a save of the table filtered on player P, with .loc aligning on the
\* column labels, the records of P in the store are exactly the rows of the
\* edited table: no record whose row was removed in the editor is left, every
\* row added in the editor is a new record, and P has as many records as
\* the edited table has rows.
C1_FilteredSaveReplacesPlayer ==
    (SavedFiltered /\ locAlign = "columns") =>
        LET P == last.arg.selected_player
            removed == IdsOf(last.arg.working) \ IdsOf(last.arg.edited)
            added == {i \in DOMAIN last.arg.edited : last.arg.edited[i].record_id = NaN}
        IN  /\ \A id \in removed : id \notin IdsOf(data)
            /\ Cardinality(IdsOf(data) \ IdsOf(last.data0)) >= Cardinality(added)
            /\ Len(SelectSeq(data, LAMBDA r : r.player = P)) = Len(last.arg.edited)

\* C2: after a save of the table filtered on player P, with .loc aligning on the
\* column labels, every record that was not of P before the save holds the
\* same values after it.
C2_OtherPlayersUntouched ==
    (SavedFiltered /\ locAlign = "columns") =>
        \A i \in DOMAIN last.data0 :
            load_data(last.data0)[i].player # last.arg.selected_player =>
                /\ i \in DOMAIN data
                /\ SameRecord(data[i], last.data0[i])

\* C3: after a save of the whole table, with .loc aligning on the column labels,
\* the store holds exactly the records whose id is in the edited table, each with
\* the fields of its edited row and the accuracy of its counts.
C3_WholeSaveKeepsEditedIds ==
    (SavedWhole /\ locAlign = "columns") =>
        /\ IdsOf(data) = IdsOf(last.arg.edited)
        /\ \A i \in DOMAIN last.arg.edited :
              last.arg.edited[i].record_id # NaN =>
                  \E j \in DOMAIN data :
                      LET e == last.arg.edited[i]
                      IN  data[j] = [record_id |-> e.record_id, date |-> e.date,
                                     player |-> e.player, shots |-> e.shots,
                                     made |-> e.made, win |-> e.win,
                                     acc |-> calc_accuracy(e.shots, e.made)]

\* C4: every record of the store holds the accuracy calc_accuracy gives for its
\* own shots and made counts.
C4_AccuracyDerived ==
    \A i \in DOMAIN data : data[i].acc = calc_accuracy(data[i].shots, data[i].made)

\* a save with .loc aligning on the column labels has changed the counts of a
\* record, and its accuracy with them
C4_Witness ==
    /\ last.op = "SaveEdits"
    /\ \E i \in DOMAIN data :
          /\ data[i].acc # NaN
          /\ data[i].acc # last.data0[i].acc
          /\ data[i].made # last.data0[i].made

\* C5: calc_accuracy returns 0 for 0 shots, and otherwise the hundredth of a
\* percent nearest to made / shots * 100; it is within [0, 100] when
\* 0 <= made <= shots; calc_accuracy(0, 0) = 0.0, calc_accuracy(10, 7) = 70.0,
\* calc_accuracy(3, 1) = 33.33.
C5_Accuracy ==
    calc.done =>
        LET s == calc.shots
            m == calc.made
            r == calc.result
            err == r * s - m * 10000
        IN  /\ (s = 0 => r = 0)
            /\ (s # 0 => 2 * err <= s /\ 2 * err >= 0 - s)
            /\ (m <= s => r >= 0 /\ r <= 10000)
            /\ (s = 0 /\ m = 0 => r = 0)
            /\ (s = 10 /\ m = 7 => r = 7000)
            /\ (s = 3 /\ m = 1 => r = 3333)

\* calc_accuracy(3, 1) has been computed and is 33.33
C5_Witness == calc.done /\ calc.shots = 3 /\ calc.made = 1 /\ calc.result = 3333

\* C6: with .loc aligning on the column labels, the records of the store have
\* pairwise distinct ids, no handler changes the id of a record the store held
\* before it, and the rows a save of the bulk editor is given carry the ids the
\* editor was opened with (the id cell is not editable).
C6_IdentityStable ==
    locAlign = "columns" =>
        /\ \A i, j \in DOMAIN data :
              data[i].record_id = data[j].record_id => i = j
        /\ \A i \in DOMAIN last.data0 :
              i \in DOMAIN data /\ data[i].record_id = last.data0[i].record_id
        /\ last.op = "SaveEdits" =>
              IdsOf(last.arg.edited) \subseteq IdsOf(last.arg.working)

\* C7: every record of the store has one of the two tokens of the win selectbox
\* for its win indicator, or none.
C7_WinCanonical ==
    \A i \in DOMAIN data : data[i].win \in WinOptions \cup {NoText}

\* C8: an add-record submission is rejected exactly when made > shots, and then
\* the store is as it was; otherwise the store is the records it held, with the
\* same values, followed by one record of the submitted player and counts.
C8_AddRecordValidation ==
    last.op = "AddRecord" =>
        /\ (last.out = "rejected") = (last.arg.made > last.arg.shots)
        /\ last.out = "rejected" => data = last.data0
        /\ last.out = "added" =>
              /\ Len(data) = Len(last.data0) + 1
              /\ \A i \in DOMAIN last.data0 : SameRecord(data[i], last.data0[i])
              /\ data[Len(data)].player = last.arg.player
              /\ data[Len(data)].shots = last.arg.shots
              /\ data[Len(data)].made = last.arg.made
              /\ data[Len(data)].record_id \notin IdsOf(last.data0)

\* a submission with made > shots was rejected with records in the store
C8_Witness ==
    /\ last.op = "AddRecord"
    /\ last.out = "rejected"
    /\ last.arg.made > last.arg.shots
    /\ last.data0 # <<>>

\* C9: a registration whose trimmed name is empty, or is the name of a row of
\* the roster, leaves the roster as it was.
C9_DuplicateRegistrationNoOp ==
    (/\ last.op = "RegisterPlayer"
     /\ (last.arg.name = "" \/ last.arg.name \in Column(last.players0, "name")))
        => players = last.players0

\* C10: a removal of the selected names leaves the rows of the other names, with
\* the same values and in the same order, and none of the selected names; it leaves
\* no photo of a selected name, and it leaves the record store as it was.
C10_DeleteNonCascading ==
    (last.op = "DeletePlayers" /\ last.out = "deleted") =>
        LET kept == SelectSeq(last.players0, LAMBDA r : r.name \notin last.arg.names)
        IN  /\ Len(players) = Len(kept)
            /\ \A i \in DOMAIN kept : SamePlayer(players[i], kept[i])
            /\ images \cap last.arg.names = {}
            /\ images = last.images0 \ last.arg.names
            /\ data = last.data0

\* a player with a photo and a record was removed, another row was left, and
\* the record of the removed player is still in the store
C10_Witness ==
    /\ last.op = "DeletePlayers"
    /\ last.out = "deleted"
    /\ players # <<>>
    /\ \E n \in last.arg.names :
          /\ n \in last.images0
          /\ n \in Column(data, "player")
          /\ n \notin Column(players, "name")

\* C11: after an update the rows of the updated name hold the age derived from
\* the submitted birthday, a birthday less than a year ago giving the age 0; after
\* a registration the row added holds the age derived from its birthday.
C11_AgeDerived ==
    /\ last.op = "UpdatePlayer" =>
          \A i \in RowsNamed(last.players0, {last.arg.name}) :
              players[i].age = AgeOf(last.arg.birthday)
    /\ (last.op = "RegisterPlayer" /\ last.out = "added") =>
          players[Len(players)].age = AgeOf(last.arg.birthday)

\* the medal a month earns, stated on the summed counts without the rounded
\* accuracy: an accuracy rounds to at least t hundredths exactly when
\* 20000 * made >= (2 * t - 1) * shots
MedalOfSums(shots, made) ==
    IF shots = 0 THEN "none"
    ELSE IF 20000 * made >= 11999 * shots THEN "gold"
    ELSE IF 20000 * made >= 9999 * shots THEN "silver"
    ELSE IF 20000 * made >= 6999 * shots THEN "bronze"
    ELSE "none"

\* C12: the medals counted for a player's records are, for each kind, the
\* number of calendar months whose summed makes over summed attempts fall in the
\* band of the kind (>= 60 gold, [50,60) silver, [35,50) bronze), so at most one
\* medal per month; two records of one month with attempts 10, 10 and makes
\* 7, 0 count one bronze medal and no other.
C12_MonthlyMedals ==
    medals.done =>
        LET recs == medals.records
            won(kind) ==
                {m \in MonthsOf(recs) :
                    MedalOfSums(SumOf(InMonth(recs, m), "shots"),
                                SumOf(InMonth(recs, m), "made")) = kind}
        IN  /\ medals.result.gold = Cardinality(won("gold"))
            /\ medals.result.silver = Cardinality(won("silver"))
            /\ medals.result.bronze = Cardinality(won("bronze"))
            /\ medals.result.gold + medals.result.silver + medals.result.bronze
                  <= Cardinality(MonthsOf(recs))
            /\ (/\ Len(recs) = 2
                /\ recs[1].date # NoDate
                /\ recs[1].date = recs[2].date
                /\ recs[1].shots = 10 /\ recs[2].shots = 10
                /\ recs[1].made = 7 /\ recs[2].made = 0)
                  => medals.result = [gold |-> 0, silver |-> 0, bronze |-> 1]

\* the medals of two records of one month with attempts 10, 10 and makes 7, 0
\* were counted
C12_Witness ==
    /\ medals.done
    /\ Len(medals.records) = 2
    /\ medals.records[1].date = <<2025, 6, 1>>
    /\ medals.records[2].date = <<2025, 6, 1>>
    /\ medals.records[1].shots = 10 /\ medals.records[2].shots = 10
    /\ medals.records[1].made = 7 /\ medals.records[2].made = 0
    /\ medals.result.bronze = 1

\* C13: after a save of the table filtered on player P, with .loc aligning on
\* the column labels, every record whose id is in the edited table is a record
\* of P, whatever was typed in its player cell, and every other player has the
\* records it had before the save.
C13_PlayerForcedOnFilteredSave ==
    (SavedFiltered /\ locAlign = "columns") =>
        LET P == last.arg.selected_player
            before == load_data(last.data0)
            IdsAttributed(rows, Q) ==
                {rows[i].record_id : i \in {j \in DOMAIN rows : rows[j].player = Q}}
        IN  /\ \A i \in DOMAIN data :
                  data[i].record_id \in IdsOf(last.arg.edited) => data[i].player = P
            /\ \A Q \in (Column(before, "player") \cup Column(data, "player")) \ {P} :
                  IdsAttributed(data, Q) = IdsAttributed(before, Q)

\* a count as the claim has it stored: the missing count as zero
Coerced(count) == IF count = NaN THEN 0 ELSE count

\* C14: after a save of the bulk editor, with .loc aligning on the column
\* labels, every row of the edited table that has a record id, alone in the
\* table with that id, and a cleared attempts or makes cell, is a record of the
\* store with zero for the cleared count and with the accuracy of the two counts
\* so coerced, which is a number.
C14_MalformedCountsCoerced ==
    (last.op = "SaveEdits" /\ locAlign = "columns") =>
        \A i \in DOMAIN last.arg.edited :
            LET e == last.arg.edited[i]
            IN  (/\ e.record_id # NaN
                 /\ \A k \in DOMAIN last.arg.edited :
                       last.arg.edited[k].record_id = e.record_id => k = i
                 /\ (e.shots = NaN \/ e.made = NaN))
                    => \E j \in DOMAIN data :
                          /\ data[j].record_id = e.record_id
                          /\ data[j].shots = Coerced(e.shots)
                          /\ data[j].made = Coerced(e.made)
                          /\ data[j].acc # NaN
                          /\ data[j].acc = calc_accuracy(Coerced(e.shots), Coerced(e.made))

\* C15: no two rows of the roster have the same name, every name of the roster
\* is non-empty and trimmed, a registration or an update leaves every row that
\* was in the roster with its name, and an update leaves every row but those of
\* the updated name with all its values.
C15_RosterKey ==
    /\ \A i, j \in DOMAIN players : players[i].name = players[j].name => i = j
    /\ \A i \in DOMAIN players :
          players[i].name # "" /\ Strip(players[i].name) = players[i].name
    /\ last.op \in {"RegisterPlayer", "UpdatePlayer"} =>
          \A i \in DOMAIN last.players0 :
              /\ i \in DOMAIN players
              /\ SameText(players[i].name, last.players0[i].name)
    /\ last.op = "UpdatePlayer" =>
          \A i \in DOMAIN last.players0 :
              last.players0[i].name # last.arg.name =>
                  SamePlayer(players[i], last.players0[i])

====
